---- MODULE Spec2Model ----
(***************************************************************************)
(* A model of the Poseidon permutation engine (src/src/poseidon.rs) and of *)
(* the archive round trip of the constants model (src/src/rykv_impl.rs,    *)
(* src/src/unsafe_rkyv.rs).                                                *)
(*                                                                         *)
(* The scalar field is scaled down to the integers modulo Modulus; the     *)
(* round numbers are scaled down likewise.  The round-constant table and   *)
(* the MDS matrix are crate-level statics that poseidon.rs only imports.   *)
(***************************************************************************)
EXTENDS Integers, Sequences, FiniteSets, TLC

(***************************************************************************)
(* Parameters                                                              *)
(***************************************************************************)
\* Order of the scaled-down scalar field.
Modulus == 7

\* Number of inputs; the tests of poseidon.rs pin vectors for 2, 4 and 8.
ARITY == 2

WIDTH == ARITY + 1

\* FULL_ROUNDS is even; hash() runs FULL_ROUNDS / 2 full rounds twice.
HalfFullRounds == 1

FULL_ROUNDS == 2 * HalfFullRounds

PARTIAL_ROUNDS == 2

\* Callers absorb elements drawn from 0..MaxInput.
MaxInput == 1

\* The input-call counter saturates MaxOver calls past the arity.
MaxOver == 2

Scalars == 0 .. (Modulus - 1)

Inputs == { e \in Scalars : e <= MaxInput }

Preimages == [1 .. ARITY -> Inputs]

(***************************************************************************)
(* Field adapter                                                           *)
(***************************************************************************)
\* Every argument the engine passes is far below 2^64, so the conversion is
\* the reduction modulo the field order.
scalar_from_u64(n) == n % Modulus

add_assign(l, r) == (l + r) % Modulus

mul_assign(l, r) == (l * r) % Modulus

(***************************************************************************)
(* Crate statics read by the engine                                        *)
(***************************************************************************)
\* The smallest table on which one hash() of a fresh state completes, as
\* the tests of poseidon.rs require.
RC_LEN == (FULL_ROUNDS + PARTIAL_ROUNDS) * WIDTH

ROUND_CONSTANTS == [i \in 0 .. (RC_LEN - 1) |-> (3 * i + 1) % Modulus]

MDS_MATRIX ==
    [j \in 0 .. (WIDTH - 1) |-> [k \in 0 .. (WIDTH - 1) |-> (j + 2 * k + 1) % Modulus]]

\* Mutant: the tag without the subtraction.
arity_tag_NoMinusOne(arity) == scalar_from_u64(2 ^ arity)

arity_tag(arity) == scalar_from_u64((2 ^ arity) - 1)

ARITY_TAG == arity_tag(ARITY)

(***************************************************************************)
(* Poseidon: the struct and its methods.  A method runs on an execution    *)
(* record: the struct (self), the round-constant indices read so far       *)
(* (reads), the rounds run so far (rounds) and whether an index was out of *)
(* range (panic), after which the unwinding call does nothing more.        *)
(***************************************************************************)
Default ==
    [constants_offset |-> 0,
     elements |-> [i \in 0 .. (WIDTH - 1) |-> IF i = 0 THEN ARITY_TAG ELSE 0],
     pos |-> 1]

Exec(self) == [self |-> self, reads |-> <<>>, rounds |-> <<>>, panic |-> FALSE]

\* Mutant: a reset that leaves the round-constant cursor alone.
reset_KeepOffset(self) ==
    [constants_offset |-> self.constants_offset,
     elements |-> [i \in 0 .. (WIDTH - 1) |-> IF i = 0 THEN ARITY_TAG ELSE scalar_from_u64(0)],
     pos |-> 1]

reset(self) ==
    [constants_offset |-> 0,
     elements |-> [i \in 0 .. (WIDTH - 1) |-> IF i = 0 THEN ARITY_TAG ELSE scalar_from_u64(0)],
     pos |-> 1]

set_preimage(self, preimage) ==
    LET r == reset(self)
    IN  [r EXCEPT !.elements = [i \in 0 .. (WIDTH - 1) |->
                                    IF i = 0 THEN r.elements[0] ELSE preimage[i]]]

new(preimage) == set_preimage(Default, preimage)

\* Mutant: the buffer-full test off by one.
input_OffByOne(self, element) ==
    IF self.pos > WIDTH
    THEN <<self, [tag |-> "Err", val |-> "FullBuffer"]>>
    ELSE <<[self EXCEPT !.elements = [i \in 0 .. (WIDTH - 1) |->
                                          IF i = self.pos THEN element ELSE self.elements[i]],
                        !.pos = self.pos + 1],
           [tag |-> "Ok", val |-> self.pos]>>

\* Mutant: the cursor after the write is returned.
input_ReturnsNewPos(self, element) ==
    IF self.pos >= WIDTH
    THEN <<self, [tag |-> "Err", val |-> "FullBuffer"]>>
    ELSE <<[self EXCEPT !.elements[self.pos] = element, !.pos = self.pos + 1],
           [tag |-> "Ok", val |-> self.pos + 1]>>

\* input returns the pair of the new struct and the Result.
input(self, element) ==
    IF self.pos >= WIDTH
    THEN <<self, [tag |-> "Err", val |-> "FullBuffer"]>>
    ELSE LET s1 == [self EXCEPT !.elements[self.pos] = element]
             s2 == [s1 EXCEPT !.pos = s1.pos + 1]
         IN  <<s2, [tag |-> "Ok", val |-> s2.pos - 1]>>

\* The closure of add_round_constants, applied to elements i, i+1, ...
\* with the local constants_offset.
RECURSIVE add_round_constants_loop(_, _, _)
add_round_constants_loop(x, i, constants_offset) ==
    IF i = WIDTH
    THEN [x EXCEPT !.self.constants_offset = constants_offset]
    ELSE IF constants_offset >= RC_LEN
         THEN [x EXCEPT !.panic = TRUE]
         ELSE add_round_constants_loop(
                  [x EXCEPT !.self.elements[i] =
                                add_assign(@, ROUND_CONSTANTS[constants_offset]),
                            !.reads = Append(@, constants_offset)],
                  i + 1, constants_offset + 1)

add_round_constants(x) ==
    IF x.panic THEN x ELSE add_round_constants_loop(x, 0, x.self.constants_offset)

RECURSIVE quintic_s_box_loop(_, _, _)
quintic_s_box_loop(l, c, n) ==
    IF n = 0 THEN l ELSE quintic_s_box_loop(mul_assign(l, c), c, n - 1)

quintic_s_box(l) == quintic_s_box_loop(l, l, 4)

RECURSIVE product_mds_row(_, _, _, _)
product_mds_row(elements, j, k, acc) ==
    IF k = WIDTH
    THEN acc
    ELSE product_mds_row(elements, j, k + 1,
                         add_assign(acc, mul_assign(MDS_MATRIX[j][k], elements[k])))

RECURSIVE product_mds_in_place_loop(_, _)
product_mds_in_place_loop(elements, j) ==
    IF j = WIDTH
    THEN elements
    ELSE product_mds_in_place_loop(
             [elements EXCEPT ![j] = product_mds_row(elements, j, 0, scalar_from_u64(0))],
             j + 1)

\* Mutant: each row is written into the state the next row reads.
product_mds_InPlace(x) ==
    IF x.panic
    THEN x
    ELSE [x EXCEPT !.self.elements = product_mds_in_place_loop(x.self.elements, 0)]

product_mds(x) ==
    IF x.panic
    THEN x
    ELSE [x EXCEPT !.self.elements =
              [j \in 0 .. (WIDTH - 1) |->
                   product_mds_row(x.self.elements, j, 0, scalar_from_u64(0))]]

SBoxAll(x) ==
    IF x.panic
    THEN x
    ELSE [x EXCEPT !.self.elements =
              [i \in 0 .. (WIDTH - 1) |-> quintic_s_box(x.self.elements[i])]]

SBoxFirst(x) ==
    IF x.panic
    THEN x
    ELSE [x EXCEPT !.self.elements[0] = quintic_s_box(@)]

Mark(x, kind) == IF x.panic THEN x ELSE [x EXCEPT !.rounds = Append(@, kind)]

full_round(x) == Mark(product_mds(SBoxAll(add_round_constants(x))), "full")

\* Mutant: a partial round that injects a single round constant.
partial_round_OneConstant(x) ==
    IF x.panic \/ x.self.constants_offset >= RC_LEN
    THEN [x EXCEPT !.panic = TRUE]
    ELSE Mark(product_mds(SBoxFirst(
             [x EXCEPT !.self.elements[0] =
                           add_assign(@, ROUND_CONSTANTS[x.self.constants_offset]),
                       !.reads = Append(@, x.self.constants_offset),
                       !.self.constants_offset = @ + 1])), "partial")

\* Mutant: a partial round that raises every element to the fifth power.
partial_round_SBoxAll(x) == Mark(product_mds(SBoxAll(add_round_constants(x))), "partial")

partial_round(x) == Mark(product_mds(SBoxFirst(add_round_constants(x))), "partial")

RECURSIVE full_rounds_loop(_, _)
full_rounds_loop(x, n) == IF n = 0 THEN x ELSE full_rounds_loop(full_round(x), n - 1)

RECURSIVE partial_rounds_loop(_, _)
partial_rounds_loop(x, n) ==
    IF n = 0 THEN x ELSE partial_rounds_loop(partial_round(x), n - 1)

\* Mutant: the partial rounds run first.
hash_PartialFirst(x) ==
    full_rounds_loop(
        full_rounds_loop(partial_rounds_loop(x, PARTIAL_ROUNDS), FULL_ROUNDS \div 2),
        FULL_ROUNDS \div 2)

\* hash: the execution after the three loops; the digest is elements[1].
hash(x) ==
    full_rounds_loop(
        partial_rounds_loop(full_rounds_loop(x, FULL_ROUNDS \div 2), PARTIAL_ROUNDS),
        FULL_ROUNDS \div 2)

hash_digest(x) == x.self.elements[1]

(***************************************************************************)
(* The constants model and its archive (rykv_impl.rs, unsafe_rkyv.rs).     *)
(***************************************************************************)
\* A field element's memory is ReprLen bytes, each below ByteBase.
ByteBase == 4

ReprLen == 2

\* Archived round numbers range over 0..MaxRounds.
MaxRounds == 5

\* Caller-supplied domain ids range over 0..MaxId.
MaxId == 1

None == [tag |-> "None"]

Some(v) == [tag |-> "Some", val |-> v]

\* The bytes a field element occupies in memory.
Mem(f) == [k \in 1 .. ReprLen |-> (f \div (ByteBase ^ (k - 1))) % ByteBase]

RECURSIVE FromMem(_, _)
FromMem(bytes, k) ==
    IF k > ReprLen THEN 0 ELSE bytes[k] * (ByteBase ^ (k - 1)) + FromMem(bytes, k + 1)

\* Raw::serialize_with: the field is read through a pointer to its Repr.
Raw_serialize_with(field) == Mem(field)

\* Raw::deserialize_with: the Repr's bytes are copied into the field type.
Raw_deserialize_with(field) == FromMem(field, 1)

RawVec_serialize_with(v) == [i \in 1 .. Len(v) |-> Raw_serialize_with(v[i])]

RawVec_deserialize_with(v) == [i \in 1 .. Len(v) |-> Raw_deserialize_with(v[i])]

RawMatrix_serialize_with(m) == [i \in 1 .. Len(m) |-> RawVec_serialize_with(m[i])]

RawMatrix_deserialize_with(m) == [i \in 1 .. Len(m) |-> RawVec_deserialize_with(m[i])]

\* ArchivedCType: CType::Arbitrary(id) is archived as Some(id).
ArchivedCType_serialize_with(field) == Some(field.id)

ArchivedCType_deserialize_with(field) == [kind |-> "Arbitrary", id |-> field.val]

\* Archived<usize> is a u64; the values here are far below 2^64.
usize_serialize(n) == [u64 |-> n]

usize_deserialize(a) == a.u64

\* The derived archives of the other field types keep the value.
Derived_serialize(v) == [archived |-> v]

Derived_deserialize(a) == a.archived

HashType_serialize(h) ==
    IF h.kind = "Custom"
    THEN [kind |-> "Custom", ctype |-> ArchivedCType_serialize_with(h.ctype)]
    ELSE [kind |-> h.kind]

HashType_deserialize(a) ==
    IF a.kind = "Custom"
    THEN [kind |-> "Custom", ctype |-> ArchivedCType_deserialize_with(a.ctype)]
    ELSE [kind |-> a.kind]

\* Serialize for PoseidonConstants: the resolved ArchivedPoseidonConstants.
serialize(self) ==
    [mds_matrices |-> Derived_serialize(self.mds_matrices),
     compressed_round_constants |-> RawVec_serialize_with(self.compressed_round_constants),
     pre_sparse_matrix |-> RawMatrix_serialize_with(self.pre_sparse_matrix),
     sparse_matrixes |-> Derived_serialize(self.sparse_matrixes),
     strength |-> Derived_serialize(self.strength),
     domain_tag |-> Raw_serialize_with(self.domain_tag),
     full_rounds |-> usize_serialize(self.full_rounds),
     partial_rounds |-> usize_serialize(self.partial_rounds),
     hash_type |-> HashType_serialize(self.hash_type),
     _a |-> Derived_serialize(self._a)]

\* Mutant: the two round numbers are read from each other's field.
deserialize_SwapRounds(self) ==
    [mds_matrices |-> Derived_deserialize(self.mds_matrices),
     round_constants |-> None,
     compressed_round_constants |-> RawVec_deserialize_with(self.compressed_round_constants),
     pre_sparse_matrix |-> RawMatrix_deserialize_with(self.pre_sparse_matrix),
     sparse_matrixes |-> Derived_deserialize(self.sparse_matrixes),
     strength |-> Derived_deserialize(self.strength),
     domain_tag |-> Raw_deserialize_with(self.domain_tag),
     full_rounds |-> usize_deserialize(self.partial_rounds),
     half_full_rounds |-> usize_deserialize(self.partial_rounds) \div 2,
     partial_rounds |-> usize_deserialize(self.full_rounds),
     hash_type |-> HashType_deserialize(self.hash_type),
     _a |-> Derived_deserialize(self._a)]

\* Deserialize for Archived<PoseidonConstants>.
deserialize(self) ==
    LET mds_matrices == Derived_deserialize(self.mds_matrices)
        compressed_round_constants ==
            RawVec_deserialize_with(self.compressed_round_constants)
        pre_sparse_matrix == RawMatrix_deserialize_with(self.pre_sparse_matrix)
        sparse_matrixes == Derived_deserialize(self.sparse_matrixes)
        strength == Derived_deserialize(self.strength)
        domain_tag == Raw_deserialize_with(self.domain_tag)
        full_rounds == usize_deserialize(self.full_rounds)
        partial_rounds == usize_deserialize(self.partial_rounds)
        hash_type == HashType_deserialize(self.hash_type)
        a == Derived_deserialize(self._a)
    IN  [mds_matrices |-> mds_matrices,
         round_constants |-> None,
         compressed_round_constants |-> compressed_round_constants,
         pre_sparse_matrix |-> pre_sparse_matrix,
         sparse_matrixes |-> sparse_matrixes,
         strength |-> strength,
         domain_tag |-> domain_tag,
         full_rounds |-> full_rounds,
         half_full_rounds |-> full_rounds \div 2,
         partial_rounds |-> partial_rounds,
         hash_type |-> hash_type,
         _a |-> a]

\* The digest of a preimage under a constants model, as an uninterpreted
\* function of the preimage and of what the engine reads from the model: the
\* domain tag, the round numbers, the compacted round constants and the
\* mixing matrices.  The full round-constant form is not read.
ConstantsHash(c, preimage) ==
    <<"digest", preimage, c.domain_tag, c.half_full_rounds, c.partial_rounds,
      c.compressed_round_constants, c.mds_matrices, c.pre_sparse_matrix,
      c.sparse_matrixes>>

HashTypes ==
    {[kind |-> "MerkleTree"]}
        \cup {[kind |-> "Custom", ctype |-> [kind |-> "Arbitrary", id |-> n]] : n \in 0 .. MaxId}

\* The models the constructor builds: an even number of full rounds, its
\* half, and the compacted constants derived from the full form.
BuiltConstants ==
    {[mds_matrices |-> "mds",
      round_constants |-> Some(crc),
      compressed_round_constants |-> crc,
      pre_sparse_matrix |-> <<crc, <<t>>>>,
      sparse_matrixes |-> "sparse",
      strength |-> st,
      domain_tag |-> t,
      full_rounds |-> 2 * h,
      half_full_rounds |-> h,
      partial_rounds |-> pr,
      hash_type |-> ht,
      _a |-> "PhantomData"] :
        crc \in [1 .. ARITY -> Inputs], st \in {"Standard", "Strengthened"},
        t \in Scalars, h \in {n \in 0 .. MaxRounds : 2 * n <= MaxRounds},
        pr \in {MaxRounds}, ht \in HashTypes}

(***************************************************************************)
(* The state machine of one Poseidon object and its caller.                *)
(***************************************************************************)
VARIABLES
    constants,  \* a constants model
    archived,   \* an archive of a constants model, or None
    origin,     \* where the archive came from
    restored,   \* the model deserialize returned, or None
    serdeOp,    \* the last archive operation
    p,          \* the Poseidon struct
    before,     \* the struct when the last operation was called
    lastOp,     \* the last public operation called
    arg,        \* its argument
    ret,        \* what it returned
    reads,      \* the ROUND_CONSTANTS indices it read, in order
    rounds,     \* the rounds it ran, in order
    panicked,   \* an index was out of range: the call unwound
    inputCalls  \* input() calls since the state was last fresh, saturating

engineVars == <<p, before, lastOp, arg, ret, reads, rounds, panicked, inputCalls>>

serdeVars == <<constants, archived, origin, restored, serdeOp>>

vars == <<engineVars, serdeVars>>

Unit == [tag |-> "Unit", val |-> "unit"]

Panic == [tag |-> "Panic", val |-> "index out of bounds"]

Min(a, b) == IF a < b THEN a ELSE b

EngineInit ==
    /\ p = Default
    /\ before = Default
    /\ lastOp = "default"
    /\ arg = <<>>
    /\ ret = Unit
    /\ reads = <<>>
    /\ rounds = <<>>
    /\ panicked = FALSE
    /\ inputCalls = 0

Init ==
    /\ EngineInit
    /\ constants = CHOOSE c \in BuiltConstants : c.domain_tag = ARITY_TAG
    /\ archived = None
    /\ origin = "none"
    /\ restored = None
    /\ serdeOp = "new"

\* A call that runs no round.
Plain(op, a, self, r, calls) ==
    /\ p' = self
    /\ before' = p
    /\ lastOp' = op
    /\ arg' = a
    /\ ret' = r
    /\ reads' = <<>>
    /\ rounds' = <<>>
    /\ panicked' = FALSE
    /\ inputCalls' = calls
    /\ UNCHANGED serdeVars

\* A call that runs rounds: x is the execution when it returned or unwound.
Ran(op, x, r) ==
    /\ p' = x.self
    /\ before' = p
    /\ lastOp' = op
    /\ arg' = <<>>
    /\ ret' = IF x.panic THEN Panic ELSE r
    /\ reads' = x.reads
    /\ rounds' = x.rounds
    /\ panicked' = x.panic
    /\ UNCHANGED <<inputCalls, serdeVars>>

CallDefault ==
    /\ ~panicked
    /\ Plain("default", <<>>, Default, Unit, 0)

CallNew ==
    /\ ~panicked
    /\ \E preimage \in Preimages : Plain("new", preimage, new(preimage), Unit, 0)

CallSetPreimage ==
    /\ ~panicked
    /\ \E preimage \in Preimages :
           Plain("set_preimage", preimage, set_preimage(p, preimage), Unit, 0)

CallReset ==
    /\ ~panicked
    /\ Plain("reset", <<>>, reset(p), Unit, 0)

CallInput ==
    /\ ~panicked
    /\ \E element \in Inputs :
           LET r == input(p, element)
           IN  Plain("input", element, r[1], r[2],
                     Min(inputCalls + 1, ARITY + MaxOver))

CallHash ==
    /\ ~panicked
    /\ LET x == hash(Exec(p))
       IN  Ran("hash", x, [tag |-> "Scalar", val |-> hash_digest(x)])

CallFullRound ==
    /\ ~panicked
    /\ Ran("full_round", full_round(Exec(p)), Unit)

CallPartialRound ==
    /\ ~panicked
    /\ Ran("partial_round", partial_round(Exec(p)), Unit)

Next ==
    \/ CallDefault
    \/ CallNew
    \/ CallSetPreimage
    \/ CallReset
    \/ CallInput
    \/ CallHash
    \/ CallFullRound
    \/ CallPartialRound

Spec == Init /\ [][Next]_vars

(***************************************************************************)
(* The state machine of a constants model and its archive.                 *)
(***************************************************************************)
SerdeInit ==
    /\ EngineInit
    /\ constants \in BuiltConstants
    /\ archived = None
    /\ origin = "none"
    /\ restored = None
    /\ serdeOp = "new"

\* The caller drops the full round-constant form.
Discard ==
    /\ constants.round_constants # None
    /\ archived = None
    /\ constants' = [constants EXCEPT !.round_constants = None]
    /\ serdeOp' = "discard"
    /\ UNCHANGED <<archived, origin, restored, engineVars>>

Serialize ==
    /\ archived = None
    /\ archived' = Some(serialize(constants))
    /\ origin' = "serialize"
    /\ serdeOp' = "serialize"
    /\ UNCHANGED <<constants, restored, engineVars>>

\* A buffer from elsewhere: any value in the full_rounds field.
Receive ==
    /\ archived = None
    /\ \E n \in 0 .. MaxRounds :
           archived' = Some([serialize(constants) EXCEPT !.full_rounds = usize_serialize(n)])
    /\ origin' = "receive"
    /\ serdeOp' = "receive"
    /\ UNCHANGED <<constants, restored, engineVars>>

Deserialize ==
    /\ archived # None
    /\ restored = None
    /\ restored' = Some(deserialize(archived.val))
    /\ serdeOp' = "deserialize"
    /\ UNCHANGED <<constants, archived, origin, engineVars>>

SerdeNext ==
    \/ Discard
    \/ Serialize
    \/ Receive
    \/ Deserialize

SerdeSpec == SerdeInit /\ [][SerdeNext]_vars

(***************************************************************************)
(* Properties of the engine                                                *)
(***************************************************************************)
Indices == 0 .. (WIDTH - 1)

RECURSIVE Absorb(_, _, _)
Absorb(self, preimage, n) ==
    IF n > ARITY THEN self ELSE Absorb(input(self, preimage[n])[1], preimage, n + 1)

AbsorbAndHash(self, preimage) == hash_digest(hash(Exec(Absorb(self, preimage, 1))))

Pow5(a) == (a * a * a * a * a) % Modulus

RECURSIVE DotRow(_, _, _)
DotRow(row, v, k) == IF k < 0 THEN 0 ELSE row[k] * v[k] + DotRow(row, v, k - 1)

RECURSIVE RunSchedule(_, _)
RunSchedule(x, sched) ==
    IF sched = <<>>
    THEN x
    ELSE RunSchedule(IF Head(sched) = "full" THEN full_round(x) ELSE partial_round(x),
                     Tail(sched))

Schedule ==
    [i \in 1 .. (2 * (FULL_ROUNDS \div 2) + PARTIAL_ROUNDS) |->
        IF i > FULL_ROUNDS \div 2 /\ i <= FULL_ROUNDS \div 2 + PARTIAL_ROUNDS
        THEN "partial" ELSE "full"]

\* C1: reset() leaves the state equal to Poseidon::default() in every field
\* (elements[0] the arity tag, elements[1..] zero, both cursors at their
\* start), whatever was done before; a second reset changes nothing, and
\* absorbing and hashing any preimage from the reset state gives the digest
\* a fresh state gives.
C1_ResetRestoresDefault ==
    lastOp = "reset" =>
        /\ p.elements[0] = ((2 ^ ARITY) - 1) % Modulus
        /\ \A i \in 1 .. (WIDTH - 1) : p.elements[i] = 0
        /\ p.constants_offset = 0
        /\ p.pos = 1
        /\ p = Default
        /\ reset(p) = p
        /\ \A preimage \in Preimages :
               AbsorbAndHash(p, preimage) = AbsorbAndHash(Default, preimage)

\* C1 witness: a reset of a state that was filled and hashed.
C1_Witness ==
    /\ lastOp = "reset"
    /\ before.constants_offset = RC_LEN
    /\ before.pos = WIDTH
    /\ before.elements # Default.elements

\* C2: counting the input() calls since the state was last fresh (default,
\* new, reset or set_preimage), the call succeeds exactly when it is one of
\* the first ARITY, and every later one fails with FullBuffer.
C2_InputSucceedsArityTimes ==
    lastOp = "input" =>
        /\ (ret.tag = "Ok") <=> (inputCalls <= ARITY)
        /\ (inputCalls > ARITY) => (ret = [tag |-> "Err", val |-> "FullBuffer"])

\* C2 witness: a failing call after the first failing call.
C2_Witness ==
    /\ lastOp = "input"
    /\ inputCalls = ARITY + MaxOver
    /\ ret.tag = "Err"
    /\ before.pos = WIDTH

\* C3: a successful input(e) writes e at the cursor it found, returns that
\* index, advances the cursor by one and changes nothing else; a failing
\* one found the cursor at WIDTH, returns FullBuffer and changes nothing.
C3_InputFrame ==
    lastOp = "input" =>
        \/ /\ ret = [tag |-> "Ok", val |-> before.pos]
           /\ before.pos < WIDTH
           /\ p.elements[before.pos] = arg
           /\ \A i \in Indices \ {before.pos} : p.elements[i] = before.elements[i]
           /\ p.pos = before.pos + 1
           /\ p.constants_offset = before.constants_offset
        \/ /\ ret = [tag |-> "Err", val |-> "FullBuffer"]
           /\ before.pos = WIDTH
           /\ p = before

\* C3 witness: the last free slot is overwritten with a new value after
\* rounds have run.
C3_Witness ==
    /\ lastOp = "input"
    /\ ret = [tag |-> "Ok", val |-> ARITY]
    /\ before.constants_offset > 0
    /\ before.elements[ARITY] # arg

\* C5 as stated: a hash() of a fresh state that returns has read exactly
\* FULL_ROUNDS*WIDTH + PARTIAL_ROUNDS round constants, indices 0, 1, 2, ...
\* in order.
C5_Original ==
    (lastOp = "hash" /\ before.constants_offset = 0 /\ ~panicked) =>
        /\ Len(reads) = FULL_ROUNDS * WIDTH + PARTIAL_ROUNDS
        /\ \A i \in 1 .. Len(reads) : reads[i] = i - 1

\* C5 amended: a hash() of a fresh state that returns has read exactly
\* (FULL_ROUNDS + PARTIAL_ROUNDS)*WIDTH round constants, indices 0, 1, 2, ...
\* strictly in order, none skipped or read twice, and leaves the cursor
\* after the last one.
C5_HashReadsEveryRoundWidth ==
    (lastOp = "hash" /\ before.constants_offset = 0 /\ ~panicked) =>
        /\ Len(reads) = (FULL_ROUNDS + PARTIAL_ROUNDS) * WIDTH
        /\ \A i \in 1 .. Len(reads) : reads[i] = i - 1
        /\ p.constants_offset = Len(reads)

\* C5 witness: a hash of a fresh, filled state.
C5_Witness ==
    /\ lastOp = "hash"
    /\ before.constants_offset = 0
    /\ before.pos = WIDTH
    /\ ~panicked
    /\ Len(reads) > FULL_ROUNDS * WIDTH + PARTIAL_ROUNDS

\* C6: a hash() that returns has run FULL_ROUNDS/2 full rounds, then
\* PARTIAL_ROUNDS partial rounds, then FULL_ROUNDS/2 full rounds, in that
\* order; the state is the one those rounds leave (the input cursor is
\* untouched) and the digest is elements[1] of it.
C6_HashSchedule ==
    (lastOp = "hash" /\ ~panicked) =>
        /\ rounds = Schedule
        /\ p = RunSchedule(Exec(before), Schedule).self
        /\ p.pos = before.pos
        /\ ret = [tag |-> "Scalar", val |-> p.elements[1]]

\* C6 witness: a hash that returned, of a filled state.
C6_Witness ==
    /\ lastOp = "hash"
    /\ ~panicked
    /\ before.pos = WIDTH
    /\ Len(rounds) = FULL_ROUNDS + PARTIAL_ROUNDS

\* C9: Poseidon::default() has elements[0] = 2^ARITY - 1 as a field
\* element, every other element zero, round-constant cursor 0 and input
\* cursor 1.
C9_DefaultState ==
    lastOp = "default" =>
        /\ p.elements[0] = ((2 ^ ARITY) - 1) % Modulus
        /\ \A i \in 1 .. (WIDTH - 1) : p.elements[i] = 0
        /\ DOMAIN p.elements = Indices
        /\ p.constants_offset = 0
        /\ p.pos = 1

\* C9 witness: a state created while a used one existed.
C9_Witness ==
    /\ lastOp = "default"
    /\ before.constants_offset > 0
    /\ before.pos > 1

\* C10: a partial round that returns has added ROUND_CONSTANTS[offset + i]
\* to every element i, advanced the cursor by WIDTH, raised elements[0]
\* alone to the fifth power, and replaced the state by MDS_MATRIX times it.
C10_PartialRound ==
    (lastOp = "partial_round" /\ ~panicked) =>
        LET off == before.constants_offset
            added == [i \in Indices |-> (before.elements[i] + ROUND_CONSTANTS[off + i]) % Modulus]
            sboxed == [i \in Indices |-> IF i = 0 THEN Pow5(added[i]) ELSE added[i]]
        IN  /\ p.elements = [j \in Indices |-> DotRow(MDS_MATRIX[j], sboxed, WIDTH - 1) % Modulus]
            /\ p.constants_offset = off + WIDTH
            /\ reads = [i \in 1 .. WIDTH |-> off + i - 1]
            /\ p.pos = before.pos

\* C10 witness: a partial round whose result differs from the full round's.
C10_Witness ==
    /\ lastOp = "partial_round"
    /\ ~panicked
    /\ before.constants_offset > 0
    /\ p.elements # full_round(Exec(before)).self.elements

\* C11: a full round that returns has added ROUND_CONSTANTS[offset + i] to
\* every element i, raised every element to the fifth power (four
\* multiplications by the value before the S-box), and replaced the state
\* by MDS_MATRIX times it, every row computed from the state before the
\* multiplication.
C11_FullRound ==
    (lastOp = "full_round" /\ ~panicked) =>
        LET off == before.constants_offset
            added == [i \in Indices |-> (before.elements[i] + ROUND_CONSTANTS[off + i]) % Modulus]
            sboxed == [i \in Indices |-> Pow5(added[i])]
        IN  /\ \A i \in Indices :
                   LET x1 == added[i]
                       x2 == (x1 * x1) % Modulus
                       x3 == (x2 * x1) % Modulus
                       x4 == (x3 * x1) % Modulus
                   IN  quintic_s_box(x1) = (x4 * x1) % Modulus
            /\ \A i \in Indices : quintic_s_box(added[i]) = sboxed[i]
            /\ p.elements = [j \in Indices |-> DotRow(MDS_MATRIX[j], sboxed, WIDTH - 1) % Modulus]
            /\ p.constants_offset = off + WIDTH
            /\ reads = [i \in 1 .. WIDTH |-> off + i - 1]
            /\ p.pos = before.pos

\* C11 witness: a full round, after other rounds, whose result differs from
\* the partial round's.
C11_Witness ==
    /\ lastOp = "full_round"
    /\ ~panicked
    /\ before.constants_offset > 0
    /\ p.elements # partial_round(Exec(before)).self.elements

\* C12 as stated: the input() that follows Poseidon::new(preimage) or
\* set_preimage(preimage) returns Err(FullBuffer) and leaves the preimage
\* as it is.
C12_InputAfterPreimageFails ==
    [][(lastOp \in {"new", "set_preimage"} /\ lastOp' = "input") =>
           (ret' = [tag |-> "Err", val |-> "FullBuffer"] /\ p' = p)]_vars

\* C13: the input cursor stays within 1..WIDTH; an operation other than a
\* reset (reset, set_preimage, or a newly made state) lowers neither cursor;
\* hash, full_round and partial_round leave the input cursor alone.
C13_Cursors ==
    /\ p.pos \in 1 .. WIDTH
    /\ lastOp \in {"input", "hash", "full_round", "partial_round"} =>
           /\ p.pos >= before.pos
           /\ p.constants_offset >= before.constants_offset
    /\ lastOp \in {"hash", "full_round", "partial_round"} => p.pos = before.pos

\* C13 witness: the last input, at the upper end of the cursor's range, made
\* after rounds have moved the round-constant cursor.
C13_Witness ==
    /\ lastOp = "input"
    /\ p.pos = WIDTH
    /\ before.pos = WIDTH - 1
    /\ p.constants_offset > 0

\* C14 as stated: no sequence of public operations reads ROUND_CONSTANTS
\* out of range, so no operation aborts.
C14_NoOutOfRangeRead ==
    /\ ~panicked
    /\ \A i \in 1 .. Len(reads) : reads[i] \in DOMAIN ROUND_CONSTANTS

(***************************************************************************)
(* Properties of the archive                                               *)
(***************************************************************************)
KeptFields ==
    {"mds_matrices", "compressed_round_constants", "pre_sparse_matrix", "sparse_matrixes",
     "strength", "domain_tag", "full_rounds", "half_full_rounds", "partial_rounds",
     "hash_type", "_a"}

C8_HalfFullRounds ==
    serdeOp = "deserialize" =>
        restored.val.half_full_rounds * 2 = restored.val.full_rounds

====
